---- MODULE Spec2Model ----
(***************************************************************************)
(* State-machine model of the n8n read-only client (src/n8n_client.py)    *)
(* and of the "Validate n8n" handler of the connect page                  *)
(* (src/streamlit_app.py).                                                *)
(*                                                                         *)
(* Granularity: one action per HTTP attempt.  An action sends the request *)
(* of the current _get_with_retry call, draws the server's answer, and    *)
(* runs the code that follows up to the next HTTP request (or up to the   *)
(* return / raise of the domain operation).                               *)
(*                                                                         *)
(* Durations are in tenths of a second (0.5 s = 5).                       *)
(***************************************************************************)
EXTENDS Integers, Sequences, FiniteSets, TLC

VARIABLES
    api_prefix,     \* N8nClient._api_prefix
    pc,             \* "idle", or the call site of the running _get_with_retry
    op,             \* the public method running (or last run) and its arguments
    cand,           \* _ensure_prefix: index into candidates
    last_exc,       \* _ensure_prefix: last_exc
    cur,            \* _get_with_retry: url and params of the running call
    attempts,       \* _get_with_retry: attempts
    delay_seconds,  \* _get_with_retry: delay_seconds (tenths of a second)
    all_items,      \* list_workflows: all_items
    cursor,         \* list_workflows: cursor
    calls,          \* observed: the _get_with_retry calls of this operation that sent a request
    responses,      \* observed: outcome of every requests.get of the latest call
    sleeps,         \* observed: every time.sleep of the latest call
    probed,         \* observed: how each probe of this operation ended
    pages,          \* observed: every payload this operation got from response.json()
    result,         \* observed: what the operation returned or raised
    n8n_client,     \* st.session_state["n8n_client"]
    ui_message,     \* what the last run displayed with st.success / st.error / st.warning
    event,          \* observed: the widget whose handler ran last
    page,                   \* st.session_state["page"]
    openrouter_api_key,     \* st.session_state["openrouter_api_key"]
    workflows_cache,        \* st.session_state["workflows_cache"]
    show_exec_picker,       \* st.session_state["show_exec_picker"]
    exec_list_payload,      \* st.session_state["exec_list_payload"]
    agent_workflow_id,      \* st.session_state["agent_workflow_id"]
    agent_workflow_json,    \* st.session_state["agent_workflow_json"]
    agent_workflow_diff,    \* st.session_state["agent_workflow_diff"]
    agent_execution_json,   \* st.session_state["agent_execution_json"]
    chats,                  \* st.session_state["chats"]
    active_chat_id          \* st.session_state["active_chat_id"]

vars == <<api_prefix, pc, op, cand, last_exc, cur, attempts, delay_seconds,
          all_items, cursor, calls, responses, sleeps, probed, pages, result,
          n8n_client, ui_message, event, page, openrouter_api_key, workflows_cache,
          show_exec_picker, exec_list_payload, agent_workflow_id,
          agent_workflow_json, agent_workflow_diff, agent_execution_json,
          chats, active_chat_id>>

clientVars == <<api_prefix, cand, last_exc, all_items, cursor>>
idleVars == <<clientVars, pc, cur, attempts, delay_seconds, calls, responses,
              sleeps, probed, pages>>
engineVars == <<idleVars, op, result>>
ctxVars == <<agent_workflow_id, agent_workflow_json, agent_workflow_diff,
             agent_execution_json>>
chatVars == <<chats, active_chat_id>>
pickerVars == <<show_exec_picker, exec_list_payload>>
flowVars == <<page, openrouter_api_key, pickerVars, ctxVars, chatVars>>
uiVars == <<n8n_client, ui_message, workflows_cache, event, flowVars>>

(***************************************************************************)
(* Bounds                                                                  *)
(***************************************************************************)
\* The server hands out a continuation cursor on at most MaxPages - 1 pages
\* of one listing, so one aggregation asks for at most MaxPages pages.
MaxPages == 3
MaxChats == 2
MaxTurns == 4

(***************************************************************************)
(* Program constants                                                       *)
(***************************************************************************)
MaxAttempts == 4
InitialDelay == 5
BackoffFactor == 2
ProbeLimit == 1
DefaultLimit == 100
DefaultExecLimit == 20
DefaultExecOffset == 0
HttpOk == 200
HttpUnauthorized == 401

None == "None"
PublicAPI == "/api/v1"
LegacyREST == "/rest"
\* faulty variant: the legacy prefix is tried first
candidatesLegacyFirst == <<LegacyREST, PublicAPI>>
\* _ensure_prefix: candidates = ["/api/v1", "/rest"]
candidates == <<PublicAPI, LegacyREST>>
RetryableStatuses == {429, 502, 503, 504}

\* Python truthiness of an Optional[str]
Truthy(s) == s # None /\ s # ""

(***************************************************************************)
(* The server's side: JSON payloads and the outcomes of requests.get       *)
(***************************************************************************)
Statuses == {HttpOk, HttpUnauthorized, 404} \cup RetryableStatuses
ItemLists == {<<"a", "b">>, <<"c", "d">>}
CursorVals == {None, "", "c1", "c2"}
Ids == {"7", "8"}

NoPayload == [type |-> "none", hasData |-> FALSE, dataIsList |-> FALSE,
              items |-> <<>>, nextCursor |-> None]
\* a JSON array
BareArray(items) == [type |-> "list", hasData |-> FALSE, dataIsList |-> FALSE,
                     items |-> items, nextCursor |-> None]
\* {"data": [...], "nextCursor": c}; nextCursor None stands for a missing or null key
Envelope(items, c) == [type |-> "dict", hasData |-> TRUE, dataIsList |-> TRUE,
                       items |-> items, nextCursor |-> c]
\* a JSON object without "data" (an error document, a single workflow, ...)
DictNoData(c) == [type |-> "dict", hasData |-> FALSE, dataIsList |-> FALSE,
                  items |-> <<>>, nextCursor |-> c]
\* a JSON object whose "data" is not an array
DictBadData(c) == [type |-> "dict", hasData |-> TRUE, dataIsList |-> FALSE,
                   items |-> <<>>, nextCursor |-> c]
\* a JSON string, number or null
Scalar == [type |-> "scalar", hasData |-> FALSE, dataIsList |-> FALSE,
           items |-> <<>>, nextCursor |-> None]
\* the Python value True
PyTrue == [type |-> "True", hasData |-> FALSE, dataIsList |-> FALSE,
           items |-> <<>>, nextCursor |-> None]

ValidPages == {BareArray(i) : i \in ItemLists}
                 \cup {Envelope(i, c) : i \in ItemLists, c \in CursorVals}
UnknownShapes == {DictNoData("c1"), DictBadData("c1"), Scalar}
ListPayloads == ValidPages \cup UnknownShapes
DocPayloads == {DictNoData(None), Scalar}

PayloadsFor(resource) ==
    IF resource = "workflows" THEN ListPayloads ELSE DocPayloads

TransportError == [exc |-> TRUE, status |-> 0, payload |-> NoPayload]
Response(s, p) == [exc |-> FALSE, status |-> s, payload |-> p]
Outcomes(resource) ==
    {TransportError}
        \cup {Response(s, NoPayload) : s \in Statuses \ {HttpOk}}
        \cup {Response(HttpOk, p) : p \in PayloadsFor(resource)}
Seen(o) == [exc |-> o.exc, status |-> o.status]
Ended(prefix, o) == [prefix |-> prefix, exc |-> o.exc, status |-> o.status]

(***************************************************************************)
(* Exceptions and results                                                  *)
(***************************************************************************)
NoExc == [type |-> "None", status |-> 0]
RequestException == [type |-> "RequestException", status |-> 0]
HTTPError(s) == [type |-> "HTTPError", status |-> s]
RuntimeError == [type |-> "RuntimeError", status |-> 0]
ValueError == [type |-> "ValueError", status |-> 0]

NoResult == [kind |-> "none", value |-> NoPayload, exc |-> NoExc]
Returned(v) == [kind |-> "returned", value |-> v, exc |-> NoExc]
Raised(e) == [kind |-> "raised", value |-> NoPayload, exc |-> e]

NoMessage == [kind |-> "none", status |-> 0, exc |-> NoExc]


(***************************************************************************)
(* Pure helpers of the client                                              *)
(***************************************************************************)
\* faulty variant: the cached prefix is ignored, detection runs on every call
PrefixCachedNever == FALSE

\* _ensure_prefix: "if self._api_prefix: return"
PrefixCached == Truthy(api_prefix)

\* faulty variant: 401 is treated as transient too
IsRetryableWith401(s) == s \in RetryableStatuses \cup {HttpUnauthorized}

\* _get_with_retry: "response.status_code in (429, 502, 503, 504)"
IsRetryable(s) == s \in RetryableStatuses

\* faulty variant: off by one, a fifth attempt is made
ShouldRetryOnceMore(n) == n <= MaxAttempts

\* _get_with_retry: "if attempts < 4", attempts already incremented
ShouldRetry(n) == n < MaxAttempts

\* faulty variant: the delay grows by the initial delay instead of doubling
NextDelayLinear(d) == d + InitialDelay

\* _get_with_retry: "delay_seconds *= 2"
NextDelay(d) == d * BackoffFactor

\* faulty variant: a 200 raises as well
RaiseForStatusFrom200(s) == s >= 200 /\ s < 600

\* requests.Response.raise_for_status: raises HTTPError for 4xx and 5xx
RaiseForStatus(s) == s >= 400 /\ s < 600

\* faulty variant: any answered probe is accepted
ProbeAcceptsAnyStatus(s) == s >= HttpOk

\* _ensure_prefix: "if resp.status_code == 200"
ProbeAccepts(s) == s = HttpOk

\* _ensure_prefix: "if last_exc: raise last_exc", else the generic RuntimeError
DetectionError(le) == IF le # NoExc THEN le ELSE RuntimeError

\* faulty variant: only the fetch_all flag decides, the prefix is not looked at
SingleCallFlagOnly(prefix, fetch_all) == ~fetch_all

\* list_workflows: "(self._api_prefix != "/api/v1") or not fetch_all"
SingleCall(prefix, fetch_all) == (prefix # PublicAPI) \/ ~fetch_all

\* list_workflows: page_items = payload.get("data", payload) if dict else payload;
\* isinstance(page_items, list)
PageItemsIsList(p) ==
    IF p.type = "dict"
    THEN (IF p.hasData THEN p.dataIsList ELSE FALSE)
    ELSE p.type = "list"
PageItems(p) == p.items

\* faulty variant: the new page is put in front of the items gathered so far
ExtendInFront(all, items) == items \o all

\* list_workflows: all_items.extend(page_items)
Extend(all, items) == all \o items

\* list_workflows: cursor = payload.get("nextCursor") if dict else None
NextCursor(p) == IF p.type = "dict" THEN p.nextCursor ELSE None

\* list_workflows: "if not cursor: break"
FollowCursor(c) == Truthy(c)

\* faulty variant: on an unexpected shape the items gathered so far are returned
UnexpectedShapeGathered(p, all) == Envelope(all, None)

\* list_workflows: "return payload" on an unexpected shape
UnexpectedShapeResult(p, all) == p

\* list_workflows: return {"data": all_items}
AggregatedResult(all) == Envelope(all, None)

(***************************************************************************)
(* Requests                                                                *)
(***************************************************************************)
NoParams == [k \in {} |-> 0]
Request(site, prefix, resource, id, params) ==
    [site |-> site, prefix |-> prefix, resource |-> resource, id |-> id,
     params |-> params]
NoRequest == Request("none", None, "none", None, NoParams)

\* _ensure_prefix: GET {prefix}/workflows with params={"limit": 1}
ProbeRequest(prefix) ==
    Request("_ensure_prefix", prefix, "workflows", None, [limit |-> ProbeLimit])

\* list_workflows: params = {"limit": limit}; "if cursor: params["cursor"] = cursor"
PageParams(c) ==
    IF Truthy(c) THEN [limit |-> DefaultLimit, cursor |-> c]
    ELSE [limit |-> DefaultLimit]
PageRequest(prefix, c) ==
    Request("list_workflows", prefix, "workflows", None, PageParams(c))

\* an Optional argument: Nothing is Python's None, Some(v) a given value
Nothing == <<>>
Some(v) == <<v>>

\* params[key] = value
Put(params, key, value) ==
    [k \in DOMAIN params \cup {key} |-> IF k = key THEN value ELSE params[k]]

\* list_executions: "if <arg> is not None: params[<key>] = <arg>"
\* faulty variant: an absent argument is sent as a null value
WithParamNull(params, key, arg) ==
    Put(params, key, IF arg = Nothing THEN None ELSE arg[1])
WithParam(params, key, arg) ==
    IF arg # Nothing THEN Put(params, key, arg[1]) ELSE params

\* list_executions: the query parameters built from its four arguments
ListExecutionsParams(workflow_id, status, limit, offset) ==
    WithParam(WithParam(WithParam(WithParam(NoParams,
        "workflowId", workflow_id), "status", status), "limit", limit),
        "offset", offset)

\* the arguments of list_executions when the caller gives none
DefaultExecArgs ==
    [workflow_id |-> Nothing, status |-> Nothing,
     limit |-> Some(DefaultExecLimit), offset |-> Some(DefaultExecOffset)]

\* the "list_executions" tool of the agent passes its arguments through;
\* limit and offset are integers there
AgentToolExecArgs(workflow_id, status, limit, offset) ==
    [workflow_id |-> workflow_id, status |-> status,
     limit |-> Some(limit), offset |-> Some(offset)]

\* page_chat, "Load Executions": workflow_id=wf_id, status=status or None,
\* limit=int(limit), offset=int(offset)
PageChatExecArgs(wf_id, status, limit, offset) ==
    [workflow_id |-> wf_id,
     status |-> IF status = "" THEN Nothing ELSE Some(status),
     limit |-> Some(limit), offset |-> Some(offset)]

\* a call of list_executions with arguments a
ExecCall(a) ==
    [name |-> "list_executions", id |-> None, fetch_all |-> TRUE,
     workflow_id |-> a.workflow_id, status |-> a.status,
     limit |-> a.limit, offset |-> a.offset]

\* the single GET of each public method, once the prefix is known
BodyRequest(o, prefix) ==
    CASE o.name \in {"test_connection", "page_connect"} ->
            Request("test_connection", prefix, "workflows", None, NoParams)
      [] o.name = "list_workflows" ->
            IF SingleCall(prefix, o.fetch_all)
            THEN Request("list_workflows", prefix, "workflows", None, NoParams)
            ELSE PageRequest(prefix, None)
      [] o.name = "get_workflow" ->
            Request("get_workflow", prefix, "workflows/{id}", o.id, NoParams)
      [] o.name = "list_executions" ->
            Request("list_executions", prefix, "executions", None,
                    ListExecutionsParams(o.workflow_id, o.status, o.limit, o.offset))
      [] o.name = "get_execution" ->
            Request("get_execution", prefix, "executions/{id}", o.id, NoParams)
BodySite(o, prefix) ==
    IF o.name = "list_workflows" /\ ~SingleCall(prefix, o.fetch_all)
    THEN "page" ELSE "get"

\* test_connection returns True without reading the body; the others
\* return response.json()
DecodesBody(o) == o.name \notin {"test_connection", "page_connect"}
BodyValue(o, payload) == IF DecodesBody(o) THEN payload ELSE PyTrue

(***************************************************************************)
(* The connect page                                                        *)
(***************************************************************************)
BaseUrls == {"", "  ", "https://n8n.example.com"}
ApiKeys == {"", "key"}
Strip(s) == IF s = "  " THEN "" ELSE s

\* page_connect: what "Validate n8n" displays for an outcome of test_connection
ConnectMessage(res) ==
    IF res.kind = "returned"
    THEN [kind |-> "success", status |-> 0, exc |-> NoExc]
    ELSE IF res.exc.type = "HTTPError"
         THEN IF res.exc.status = HttpUnauthorized
              THEN [kind |-> "unauthorized_tips", status |-> res.exc.status, exc |-> res.exc]
              ELSE [kind |-> "http_status", status |-> res.exc.status, exc |-> res.exc]
         ELSE [kind |-> "exception", status |-> 0, exc |-> res.exc]
ConnectClient(res) == IF res.kind = "returned" THEN "client" ELSE None
\* page_connect: a validated connection forgets the cached workflow listing
ConnectCache(res, cache) == IF res.kind = "returned" THEN Nothing ELSE cache

(***************************************************************************)
(* Building blocks of the actions                                          *)
(***************************************************************************)
\* entry of _get_with_retry: attempts = 0, delay_seconds = 0.5
BeginCall(site, req) ==
    /\ pc' = site
    /\ cur' = req
    /\ attempts' = 0
    /\ delay_seconds' = InitialDelay

\* the operation returns or raises; the connect page then reports it
Finish(res) ==
    /\ pc' = "idle"
    /\ result' = res
    /\ cur' = cur
    /\ attempts' = attempts + 1
    /\ delay_seconds' = delay_seconds
    /\ IF op.name = "page_connect"
       THEN /\ n8n_client' = ConnectClient(res)
            /\ ui_message' = ConnectMessage(res)
            /\ workflows_cache' = ConnectCache(res, workflows_cache)
            /\ UNCHANGED <<event, flowVars>>
       ELSE UNCHANGED uiVars

\* one requests.get of the running call, with outcome o
Observe(o) ==
    /\ calls' = IF attempts = 0 THEN Append(calls, cur) ELSE calls
    /\ responses' = Append(IF attempts = 0 THEN <<>> ELSE responses, Seen(o))
SleepsNow == IF attempts = 0 THEN <<>> ELSE sleeps

\* _get_with_retry returns the response / re-raises the exception
Returns(o) == ~o.exc /\ ~(IsRetryable(o.status) /\ ShouldRetry(attempts + 1))
Raises(o) == o.exc /\ ~ShouldRetry(attempts + 1)

\* the body of a public method after self._ensure_prefix() returned
StartBody(o, prefix) == BeginCall(BodySite(o, prefix), BodyRequest(o, prefix))

\* _ensure_prefix: the for loop moves to the next candidate or runs out
NextCandidate(le) ==
    IF cand < Len(candidates)
    THEN /\ cand' = cand + 1
         /\ BeginCall("probe", ProbeRequest(candidates[cand + 1]))
         /\ UNCHANGED <<result, uiVars>>
    ELSE /\ cand' = cand
         /\ Finish(Raised(DetectionError(le)))

\* a public method is entered: fresh locals, then self._ensure_prefix()
EnterLocals(o) ==
    /\ op' = o
    /\ calls' = <<>>
    /\ responses' = <<>>
    /\ sleeps' = <<>>
    /\ probed' = <<>>
    /\ pages' = <<>>
    /\ all_items' = <<>>
    /\ cursor' = None
    /\ last_exc' = NoExc
Enter(o) == EnterLocals(o) /\ result' = NoResult

(***************************************************************************)
(* Actions                                                                 *)
(***************************************************************************)
OpCalls ==
    {[name |-> "test_connection", id |-> None, fetch_all |-> TRUE],
     ExecCall(DefaultExecArgs)}
        \cup {[name |-> "list_workflows", id |-> None, fetch_all |-> f] : f \in BOOLEAN}
        \cup {[name |-> n, id |-> i, fetch_all |-> TRUE] :
                  n \in {"get_workflow", "get_execution"}, i \in Ids}

\* a caller invokes a public method of the client
Call ==
    /\ pc = "idle"
    /\ \E o \in OpCalls :
        /\ Enter(o)
        /\ IF PrefixCached
           THEN /\ cand' = 0
                /\ StartBody(o, api_prefix)
           ELSE /\ cand' = 1
                /\ BeginCall("probe", ProbeRequest(candidates[1]))
    /\ UNCHANGED <<api_prefix, uiVars>>

\* the arguments list_executions is called with: by a direct caller (every
\* argument optional), by the agent's tool, and by "Load Executions" (the
\* status box offers "", the number boxes a limit from 1 and an offset from 0)
ExecArgs ==
    [workflow_id : {Nothing, Some("7")}, status : {Nothing, Some("error")},
     limit : {Nothing, Some(DefaultExecLimit)},
     offset : {Nothing, Some(DefaultExecOffset)}]
        \cup {AgentToolExecArgs(w, s, 1, 5) :
                  w \in {Nothing, Some("7")}, s \in {Nothing, Some("error")}}
        \cup {PageChatExecArgs(Some("7"), s, 1, 5) : s \in {"", "error"}}

\* a caller invokes list_executions with some of its filters
CallListExecutions ==
    /\ pc = "idle"
    /\ \E a \in ExecArgs :
        /\ Enter(ExecCall(a))
        /\ IF PrefixCached
           THEN /\ cand' = 0
                /\ StartBody(ExecCall(a), api_prefix)
           ELSE /\ cand' = 1
                /\ BeginCall("probe", ProbeRequest(candidates[1]))
    /\ UNCHANGED <<api_prefix, uiVars>>

\* page_connect, "Validate n8n": N8nClient(...) then client.test_connection()
ValidateN8n ==
    /\ pc = "idle"
    /\ page = "connect"
    /\ event' = "Validate n8n"
    /\ \E base_url \in BaseUrls, api_key \in ApiKeys :
        LET o == [name |-> "page_connect", id |-> None, fetch_all |-> TRUE] IN
        /\ EnterLocals(o)
        /\ api_prefix' = None
        /\ IF Strip(base_url) = "" \/ Strip(api_key) = ""
           THEN /\ cand' = 0
                /\ pc' = "idle"
                /\ result' = Raised(ValueError)
                /\ cur' = NoRequest
                /\ attempts' = 0
                /\ delay_seconds' = InitialDelay
                /\ n8n_client' = None
                /\ ui_message' = ConnectMessage(Raised(ValueError))
                /\ UNCHANGED <<workflows_cache, flowVars>>
           ELSE /\ cand' = 1
                /\ result' = NoResult
                /\ BeginCall("probe", ProbeRequest(candidates[1]))
                /\ UNCHANGED <<n8n_client, ui_message, workflows_cache, flowVars>>

\* _get_with_retry: a retryable status with attempts left: sleep, double, retry
RetryStatus ==
    /\ pc # "idle"
    /\ \E o \in Outcomes(cur.resource) :
        /\ ~o.exc /\ IsRetryable(o.status) /\ ShouldRetry(attempts + 1)
        /\ Observe(o)
    /\ attempts' = attempts + 1
    /\ sleeps' = Append(SleepsNow, delay_seconds)
    /\ delay_seconds' = NextDelay(delay_seconds)
    /\ UNCHANGED <<clientVars, pc, op, cur, probed, pages, result, uiVars>>

\* _get_with_retry: a RequestException with attempts left: sleep, double, retry
RetryException ==
    /\ pc # "idle"
    /\ \E o \in Outcomes(cur.resource) :
        /\ o.exc /\ ShouldRetry(attempts + 1)
        /\ Observe(o)
    /\ attempts' = attempts + 1
    /\ sleeps' = Append(SleepsNow, delay_seconds)
    /\ delay_seconds' = NextDelay(delay_seconds)
    /\ UNCHANGED <<clientVars, pc, op, cur, probed, pages, result, uiVars>>

\* _ensure_prefix: the probe answered 200: cache the prefix, run the method body
ProbeOk ==
    /\ pc = "probe"
    /\ \E o \in Outcomes(cur.resource) :
        /\ Returns(o) /\ ProbeAccepts(o.status)
        /\ Observe(o)
        /\ probed' = Append(probed, Ended(cur.prefix, o))
    /\ sleeps' = SleepsNow
    /\ api_prefix' = candidates[cand]
    /\ StartBody(op, candidates[cand])
    /\ UNCHANGED <<op, cand, last_exc, all_items, cursor, pages, result, uiVars>>

\* _ensure_prefix: the probe answered another status: no exception, next candidate
ProbeNot200 ==
    /\ pc = "probe"
    /\ \E o \in Outcomes(cur.resource) :
        /\ Returns(o) /\ ~ProbeAccepts(o.status)
        /\ Observe(o)
        /\ probed' = Append(probed, Ended(cur.prefix, o))
    /\ sleeps' = SleepsNow
    /\ NextCandidate(last_exc)
    /\ UNCHANGED <<api_prefix, op, last_exc, all_items, cursor, pages>>

\* _ensure_prefix: the probe raised after the last attempt: remember it, next candidate
ProbeRaise ==
    /\ pc = "probe"
    /\ \E o \in Outcomes(cur.resource) :
        /\ Raises(o)
        /\ Observe(o)
        /\ probed' = Append(probed, Ended(cur.prefix, o))
    /\ sleeps' = SleepsNow
    /\ last_exc' = RequestException
    /\ NextCandidate(RequestException)
    /\ UNCHANGED <<api_prefix, op, all_items, cursor, pages>>

\* a single-GET method: response.raise_for_status(); return response.json()
GetReturn ==
    /\ pc = "get"
    /\ \E o \in Outcomes(cur.resource) :
        /\ Returns(o)
        /\ Observe(o)
        /\ IF RaiseForStatus(o.status)
           THEN /\ Finish(Raised(HTTPError(o.status)))
                /\ pages' = pages
           ELSE /\ Finish(Returned(BodyValue(op, o.payload)))
                /\ pages' = IF DecodesBody(op) THEN Append(pages, o.payload) ELSE pages
    /\ sleeps' = SleepsNow
    /\ UNCHANGED <<clientVars, op, probed>>

\* the method's GET raised after the last attempt: the exception propagates
GetRaise ==
    /\ pc \in {"get", "page"}
    /\ \E o \in Outcomes(cur.resource) :
        /\ Raises(o)
        /\ Observe(o)
    /\ sleeps' = SleepsNow
    /\ Finish(Raised(RequestException))
    /\ UNCHANGED <<clientVars, op, probed, pages>>

\* list_workflows, pagination loop: raise_for_status raises on the page
PageHTTPError ==
    /\ pc = "page"
    /\ \E o \in Outcomes(cur.resource) :
        /\ Returns(o) /\ RaiseForStatus(o.status)
        /\ Observe(o)
        /\ Finish(Raised(HTTPError(o.status)))
    /\ sleeps' = SleepsNow
    /\ UNCHANGED <<clientVars, op, probed, pages>>

\* list_workflows, pagination loop: unexpected shape, return the raw payload
PageUnexpected ==
    /\ pc = "page"
    /\ \E o \in Outcomes(cur.resource) :
        /\ Returns(o) /\ ~RaiseForStatus(o.status)
        /\ ~PageItemsIsList(o.payload)
        /\ Observe(o)
        /\ pages' = Append(pages, o.payload)
        /\ Finish(Returned(UnexpectedShapeResult(o.payload, all_items)))
    /\ sleeps' = SleepsNow
    /\ UNCHANGED <<clientVars, op, probed>>

\* list_workflows, pagination loop: items appended, cursor present: next page
PageNext ==
    /\ pc = "page"
    /\ \E o \in Outcomes(cur.resource) :
        /\ Returns(o) /\ ~RaiseForStatus(o.status)
        /\ PageItemsIsList(o.payload)
        /\ FollowCursor(NextCursor(o.payload))
        /\ Len(pages) + 1 < MaxPages
        /\ Observe(o)
        /\ pages' = Append(pages, o.payload)
        /\ all_items' = Extend(all_items, PageItems(o.payload))
        /\ cursor' = NextCursor(o.payload)
        /\ BeginCall("page", PageRequest(api_prefix, NextCursor(o.payload)))
    /\ sleeps' = SleepsNow
    /\ UNCHANGED <<api_prefix, op, cand, last_exc, probed, result, uiVars>>

\* list_workflows, pagination loop: items appended, no cursor: return {"data": all_items}
PageLast ==
    /\ pc = "page"
    /\ \E o \in Outcomes(cur.resource) :
        /\ Returns(o) /\ ~RaiseForStatus(o.status)
        /\ PageItemsIsList(o.payload)
        /\ ~FollowCursor(NextCursor(o.payload))
        /\ Observe(o)
        /\ pages' = Append(pages, o.payload)
        /\ all_items' = Extend(all_items, PageItems(o.payload))
        /\ cursor' = NextCursor(o.payload)
        /\ Finish(Returned(AggregatedResult(Extend(all_items, PageItems(o.payload)))))
    /\ sleeps' = SleepsNow
    /\ UNCHANGED <<api_prefix, op, cand, last_exc, probed>>

(***************************************************************************)
(* The pages of the app.  One action is one run of the script: the handler *)
(* of the widget the user touched and the rest of the page around it.  A   *)
(* call of the client is taken in one step here: it returns a document or  *)
(* raises, as the operations of the client above do.                       *)
(***************************************************************************)
\* what the n8n server holds: workflows (id, name) and executions (id, status)
WorkflowDocs == [id : {"7"}, name : {"A", "B"}]
ExecutionDocs == [id : {"e1"}, status : {"success", "error"}]
\* str(wf.get("id")) of the workflows in a listing; an id may be empty
WorkflowListings == {<<>>, <<"7", "">>}
ExecutionListings == {<<>>, <<"e1">>}
\* what a method of the client raises
ClientErrors == {HTTPError(404), RequestException}
OpenRouterKeys == {"", "sk-or"}

Message(kind, exc) == [kind |-> kind, status |-> 0, exc |-> exc]

\* Python truthiness of an optional string
TruthyArg(arg) == arg # Nothing /\ arg[1] # ""

\* json.dumps(obj, indent=2).splitlines(): one line per brace and per key
JsonLine(key, value) == [k |-> key, v |-> value]
JsonLines(obj) ==
    IF obj = Nothing THEN <<JsonLine("null", "")>>
    ELSE <<JsonLine("{", ""), JsonLine("id", obj[1].id),
           JsonLine("name", obj[1].name), JsonLine("}", "")>>

\* difflib.unified_diff(old_s, new_s, lineterm="", n=3): nothing when the
\* line lists are equal; else the two file headers, one hunk header (the
\* documents are shorter than the context) and the hunk: equal lines with
\* " ", each run of changed lines as its "-" lines, then its "+" lines
DiffLine(tag, line) == [tag |-> tag, k |-> line.k, v |-> line.v]
Tagged(tag, lines) == [i \in 1..Len(lines) |-> DiffLine(tag, lines[i])]
RunEnd(a, b, i) ==
    CHOOSE j \in i..Len(a) :
        /\ \A k \in i..j : a[k] # b[k]
        /\ (j = Len(a) \/ a[j + 1] = b[j + 1])
RECURSIVE Hunk(_, _, _)
Hunk(a, b, i) ==
    IF i > Len(a) THEN <<>>
    ELSE IF a[i] = b[i]
         THEN <<DiffLine(" ", a[i])>> \o Hunk(a, b, i + 1)
         ELSE LET j == RunEnd(a, b, i) IN
              Tagged("-", SubSeq(a, i, j)) \o Tagged("+", SubSeq(b, i, j))
                  \o Hunk(a, b, j + 1)
DiffHeader ==
    <<DiffLine("---", JsonLine("", "")), DiffLine("+++", JsonLine("", "")),
      DiffLine("@@", JsonLine("", ""))>>

\* _unified_diff(old, new): the text as its sequence of lines
UnifiedDiff(old, new) ==
    LET old_s == JsonLines(old)
        new_s == JsonLines(new) IN
    IF old_s = new_s THEN <<>>
    ELSE IF Len(old_s) = Len(new_s)
         THEN DiffHeader \o Hunk(old_s, new_s, 1)
         ELSE DiffHeader \o Tagged("-", old_s) \o Tagged("+", new_s)

\* the four agent_* keys of the session state, read and written together
ContextRecord ==
    [workflow_id |-> agent_workflow_id, workflow_json |-> agent_workflow_json,
     workflow_diff |-> agent_workflow_diff,
     execution_json |-> agent_execution_json]
EmptyContext ==
    [workflow_id |-> Nothing, workflow_json |-> Nothing,
     workflow_diff |-> Nothing, execution_json |-> Nothing]
SetContext(c) ==
    /\ agent_workflow_id' = c.workflow_id
    /\ agent_workflow_json' = c.workflow_json
    /\ agent_workflow_diff' = c.workflow_diff
    /\ agent_execution_json' = c.execution_json

\* "Use This Workflow" after get_workflow returned wf_json
\* faulty variant: the execution of the workflow chosen before stays attached
SelectWorkflowKeepsExecution(c, wf_id, wf_json) ==
    [c EXCEPT !.workflow_id = Some(wf_id), !.workflow_json = Some(wf_json),
              !.workflow_diff = Nothing]
SelectWorkflow(c, wf_id, wf_json) ==
    [workflow_id |-> Some(wf_id), workflow_json |-> Some(wf_json),
     workflow_diff |-> Nothing, execution_json |-> Nothing]

\* "Refresh Workflow JSON" after get_workflow returned latest
\* faulty variant: the new diff is added to the one already stored
RefreshWorkflowMerges(c, latest) ==
    [c EXCEPT !.workflow_diff =
                  Some((IF c.workflow_diff = Nothing THEN <<>>
                        ELSE c.workflow_diff[1])
                           \o UnifiedDiff(c.workflow_json, Some(latest))),
              !.workflow_json = Some(latest)]
RefreshWorkflow(c, latest) ==
    [c EXCEPT !.workflow_diff = Some(UnifiedDiff(c.workflow_json, Some(latest))),
              !.workflow_json = Some(latest)]

\* "Use This Execution" after get_execution returned ex_json
AttachExecution(c, ex_json) == [c EXCEPT !.execution_json = Some(ex_json)]

\* "Clear Execution Context"
\* faulty variant: the diff is cleared together with the execution
ClearExecutionAndDiff(c) ==
    [c EXCEPT !.execution_json = Nothing, !.workflow_diff = Nothing]
ClearExecution(c) == [c EXCEPT !.execution_json = Nothing]

\* the except branch of the three fetching handlers: st.error and nothing else
\* faulty variant: the failure empties the context
FetchFailedEmpties(c) == EmptyContext
FetchFailed(c) == c

\* the chats and the active chat id, read and written together; the id
\* "chat-<n>" is the number n
Registry == [chats |-> chats, active_chat_id |-> active_chat_id]
SetRegistry(r) ==
    /\ chats' = r.chats
    /\ active_chat_id' = r.active_chat_id
EmptyChat(n) == [id |-> n, name |-> "", messages |-> <<>>]
ChatIds(r) == {r.chats[i].id : i \in 1..Len(r.chats)}

\* _ensure_active_chat: the chats and the active id it leaves, and the place
\* "at" of the chat it returns
\* faulty variant: an empty list of chats gets two chats
EnsureActiveChatCreatesTwo(r) ==
    IF r.chats = <<>>
    THEN [chats |-> <<EmptyChat(1), EmptyChat(2)>>, active_chat_id |-> Some(1),
          at |-> 1]
    ELSE [chats |-> r.chats,
          active_chat_id |-> IF r.active_chat_id # Nothing
                             THEN r.active_chat_id ELSE Some(r.chats[1].id),
          at |-> 1]
EnsureActiveChat(r) ==
    IF r.chats = <<>>
    THEN [chats |-> <<EmptyChat(1)>>, active_chat_id |-> Some(1), at |-> 1]
    ELSE LET active_id == IF r.active_chat_id # Nothing
                          THEN r.active_chat_id[1] ELSE r.chats[1].id
             found == {i \in 1..Len(r.chats) : r.chats[i].id = active_id} IN
         [chats |-> r.chats, active_chat_id |-> Some(active_id),
          at |-> IF found = {} THEN 1
                 ELSE CHOOSE i \in found : \A j \in found : i <= j]
Ensured(r) ==
    [chats |-> EnsureActiveChat(r).chats,
     active_chat_id |-> EnsureActiveChat(r).active_chat_id]

\* _reset_active_chat_messages
\* faulty variant: the messages of every chat are dropped
ResetKeepsFirstTurn(r) ==
    [chats |-> [EnsureActiveChat(r).chats EXCEPT
                   ![EnsureActiveChat(r).at].messages =
                       SubSeq(@, 1, IF Len(@) > 0 THEN 1 ELSE 0)],
     active_chat_id |-> EnsureActiveChat(r).active_chat_id]
ResetEveryChat(r) ==
    [chats |-> [i \in 1..Len(EnsureActiveChat(r).chats) |->
                   [EnsureActiveChat(r).chats[i] EXCEPT !.messages = <<>>]],
     active_chat_id |-> EnsureActiveChat(r).active_chat_id]
ResetActiveChatMessages(r) ==
    LET e == EnsureActiveChat(r) IN
    [chats |-> [e.chats EXCEPT ![e.at].messages = <<>>],
     active_chat_id |-> e.active_chat_id]

\* New Chat: the id is made from the number of chats
\* faulty variant: the id of the last chat is used again
NewChatSameId(r) ==
    [chats |-> Append(r.chats, EmptyChat(Len(r.chats))),
     active_chat_id |-> Some(Len(r.chats))]
NewChat(r) ==
    [chats |-> Append(r.chats, EmptyChat(Len(r.chats) + 1)),
     active_chat_id |-> Some(Len(r.chats) + 1)]

\* the radio of the sidebar: "if sel and sel != current_id"
PickChat(r, sel) == [r EXCEPT !.active_chat_id = Some(sel)]

\* page_chat: the reply of an exchange
ChatReply(client, key, agent_reply) ==
    IF client = None THEN "Please connect to your n8n instance first."
    ELSE IF Strip(key) = ""
         THEN "Please provide your OpenRouter API Key on the Connect page."
         ELSE agent_reply
Turn(role, content) == [role |-> role, content |-> content]

\* page_chat: both messages are appended to the chat _ensure_active_chat
\* returns, which is named if it has no name yet
\* faulty variant: only the user message is kept
AppendToFirstChat(r, prompt, reply, title) ==
    [chats |-> [EnsureActiveChat(r).chats EXCEPT
                   ![1].messages =
                       @ \o <<[role |-> "user", content |-> prompt],
                              [role |-> "assistant", content |-> reply]>>],
     active_chat_id |-> EnsureActiveChat(r).active_chat_id]
AppendUserOnly(r, prompt, reply, title) ==
    [chats |-> [EnsureActiveChat(r).chats EXCEPT
                   ![EnsureActiveChat(r).at].messages =
                       Append(@, [role |-> "user", content |-> prompt])],
     active_chat_id |-> EnsureActiveChat(r).active_chat_id]
AppendExchange(r, prompt, reply, title) ==
    LET e == EnsureActiveChat(r)
        chat == e.chats[e.at] IN
    [chats |-> [e.chats EXCEPT ![e.at] =
                   [chat EXCEPT
                      !.messages = chat.messages
                          \o <<Turn("user", prompt), Turn("assistant", reply)>>,
                      !.name = IF chat.name = "" THEN title ELSE chat.name]],
     active_chat_id |-> e.active_chat_id]

Prompts == {"p1", "p2"}
AgentReplies == {"r1", "(No response)"}
Titles == {"Title", "New Chat"}
RECURSIVE TurnCount(_)
TurnCount(cs) ==
    IF cs = <<>> THEN 0 ELSE Len(Head(cs).messages) + TurnCount(Tail(cs))

\* a call of the client made by a page, and how it ended
ClientCall(name, id) == [name |-> name, id |-> id, fetch_all |-> TRUE]
Fetched(call, res) == op' = call /\ result' = res

\* page_connect, "Validate n8n", with the call of test_connection in one step
ConnectN8n ==
    /\ page = "connect"
    /\ event' = "Validate n8n"
    /\ \E res \in {Returned(PyTrue), Raised(ValueError),
                   Raised(HTTPError(HttpUnauthorized)), Raised(RequestException)} :
        /\ Fetched(ClientCall("page_connect", None), res)
        /\ n8n_client' = ConnectClient(res)
        /\ ui_message' = ConnectMessage(res)
        /\ workflows_cache' = ConnectCache(res, workflows_cache)
    /\ UNCHANGED <<idleVars, flowVars>>

\* page_connect: the text box of the OpenRouter key
EnterOpenRouterKey ==
    /\ page = "connect"
    /\ event' = "OpenRouter API Key"
    /\ \E key \in OpenRouterKeys : openrouter_api_key' = key
    /\ ui_message' = NoMessage
    /\ UNCHANGED <<engineVars, n8n_client, workflows_cache, page, pickerVars,
                   ctxVars, chatVars>>

\* page_connect, "Continue"
Continue ==
    /\ page = "connect"
    /\ event' = "Continue"
    /\ IF n8n_client # None /\ Strip(openrouter_api_key) # ""
       THEN page' = "choose" /\ ui_message' = NoMessage
       ELSE page' = page /\ ui_message' = Message("validate_both_first", NoExc)
    /\ UNCHANGED <<engineVars, n8n_client, workflows_cache, openrouter_api_key,
                   pickerVars, ctxVars, chatVars>>

\* page_choose_workflow run with no listing cached: client.list_workflows()
LoadWorkflows ==
    /\ page = "choose" /\ n8n_client # None
    /\ event' = "Choose a Workflow"
    /\ workflows_cache = Nothing
    /\ \/ \E listing \in WorkflowListings :
            /\ Fetched(ClientCall("list_workflows", None), Returned(listing))
            /\ workflows_cache' = Some(listing)
            /\ ui_message' = NoMessage
       \/ \E exc \in ClientErrors :
            /\ Fetched(ClientCall("list_workflows", None), Raised(exc))
            /\ workflows_cache' = workflows_cache
            /\ ui_message' = Message("failed_to_load_workflows", exc)
    /\ UNCHANGED <<idleVars, n8n_client, flowVars>>

\* page_choose_workflow, "Reload Workflows"
ReloadWorkflows ==
    /\ page = "choose" /\ n8n_client # None
    /\ event' = "Reload Workflows"
    /\ workflows_cache # Nothing
    /\ \/ \E listing \in WorkflowListings :
            /\ Fetched(ClientCall("list_workflows", None), Returned(listing))
            /\ workflows_cache' = Some(listing)
            /\ ui_message' = NoMessage
       \/ \E exc \in ClientErrors :
            /\ Fetched(ClientCall("list_workflows", None), Raised(exc))
            /\ workflows_cache' = workflows_cache
            /\ ui_message' = Message("failed_to_reload_workflows", exc)
    /\ UNCHANGED <<idleVars, n8n_client, flowVars>>

\* page_choose_workflow, "Use This Workflow" on a workflow of the listing
UseThisWorkflow ==
    /\ page = "choose" /\ n8n_client # None
    /\ event' = "Use This Workflow"
    /\ workflows_cache # Nothing
    /\ \E i \in 1..Len(workflows_cache[1]) :
        LET wf_id == workflows_cache[1][i] IN
        \/ \E wf_json \in WorkflowDocs :
            /\ Fetched(ClientCall("get_workflow", wf_id), Returned(wf_json))
            /\ SetContext(SelectWorkflow(ContextRecord, wf_id, wf_json))
            /\ SetRegistry(ResetActiveChatMessages(Ensured(Registry)))
            /\ page' = "chat"
            /\ ui_message' = NoMessage
        \/ \E exc \in ClientErrors :
            /\ Fetched(ClientCall("get_workflow", wf_id), Raised(exc))
            /\ SetContext(FetchFailed(ContextRecord))
            /\ ui_message' = Message("failed_to_load_workflow", exc)
            /\ UNCHANGED <<page, chatVars>>
    /\ UNCHANGED <<idleVars, n8n_client, workflows_cache, openrouter_api_key,
                   pickerVars>>

\* page_chat, "Back": the run returns at once
Back ==
    /\ page = "chat"
    /\ event' = "Back"
    /\ page' = "choose"
    /\ ui_message' = NoMessage
    /\ UNCHANGED <<engineVars, n8n_client, workflows_cache, openrouter_api_key,
                   pickerVars, ctxVars, chatVars>>

\* page_chat: after the top bar and the picker, every run renders the
\* sidebar and the transcript of _ensure_active_chat()
RenderChat(r) == SetRegistry(Ensured(r))

\* page_chat, "Refresh Workflow JSON"
RefreshWorkflowJson ==
    /\ page = "chat"
    /\ event' = "Refresh Workflow JSON"
    /\ IF n8n_client # None /\ TruthyArg(agent_workflow_id)
       THEN LET call == ClientCall("get_workflow", agent_workflow_id[1]) IN
            \/ \E latest \in WorkflowDocs :
                 /\ Fetched(call, Returned(latest))
                 /\ SetContext(RefreshWorkflow(ContextRecord, latest))
                 /\ ui_message' = Message("workflow_refreshed", NoExc)
            \/ \E exc \in ClientErrors :
                 /\ Fetched(call, Raised(exc))
                 /\ SetContext(FetchFailed(ContextRecord))
                 /\ ui_message' = Message("failed_to_refresh_workflow", exc)
       ELSE /\ UNCHANGED <<op, result, ctxVars>>
            /\ ui_message' = NoMessage
    /\ RenderChat(Registry)
    /\ UNCHANGED <<idleVars, n8n_client, workflows_cache, page,
                   openrouter_api_key, pickerVars>>

\* page_chat, "Select Execution"
SelectExecution ==
    /\ page = "chat"
    /\ event' = "Select Execution"
    /\ show_exec_picker' = TRUE
    /\ ui_message' = NoMessage
    /\ RenderChat(Registry)
    /\ UNCHANGED <<engineVars, n8n_client, workflows_cache, page,
                   openrouter_api_key, exec_list_payload, ctxVars>>

\* page_chat, "Clear Execution Context"
ClearExecutionContext ==
    /\ page = "chat"
    /\ event' = "Clear Execution Context"
    /\ SetContext(ClearExecution(ContextRecord))
    /\ ui_message' = NoMessage
    /\ RenderChat(Registry)
    /\ UNCHANGED <<engineVars, n8n_client, workflows_cache, page,
                   openrouter_api_key, pickerVars>>

\* page_chat, "Load Executions": client.list_executions(...) of the picker
LoadExecutions ==
    /\ page = "chat" /\ show_exec_picker
    /\ event' = "Load Executions"
    /\ \E status \in {"", "error"} :
        LET call == ExecCall(PageChatExecArgs(agent_workflow_id, status, 1, 5)) IN
        \/ \E listing \in ExecutionListings :
            /\ Fetched(call, Returned(listing))
            /\ exec_list_payload' = Some(listing)
            /\ ui_message' = NoMessage
        \/ \E exc \in ClientErrors :
            /\ Fetched(call, Raised(exc))
            /\ exec_list_payload' = exec_list_payload
            /\ ui_message' = Message("failed_to_load_executions", exc)
    /\ RenderChat(Registry)
    /\ UNCHANGED <<idleVars, n8n_client, workflows_cache, page,
                   openrouter_api_key, show_exec_picker, ctxVars>>

\* page_chat, "Use This Execution" on an execution of the loaded listing
UseThisExecution ==
    /\ page = "chat" /\ show_exec_picker
    /\ event' = "Use This Execution"
    /\ exec_list_payload # Nothing
    /\ \E i \in 1..Len(exec_list_payload[1]) :
        LET call == ClientCall("get_execution", exec_list_payload[1][i]) IN
        \/ \E ex_json \in ExecutionDocs :
            /\ Fetched(call, Returned(ex_json))
            /\ SetContext(AttachExecution(ContextRecord, ex_json))
            /\ ui_message' = Message("execution_added", NoExc)
            /\ show_exec_picker' = FALSE
        \/ \E exc \in ClientErrors :
            /\ Fetched(call, Raised(exc))
            /\ SetContext(FetchFailed(ContextRecord))
            /\ ui_message' = Message("failed_to_load_execution", exc)
            /\ show_exec_picker' = show_exec_picker
    /\ RenderChat(Registry)
    /\ UNCHANGED <<idleVars, n8n_client, workflows_cache, page,
                   openrouter_api_key, exec_list_payload>>

\* page_chat: another chat is picked in the sidebar
SelectChat ==
    /\ page = "chat"
    /\ event' = "Chats"
    /\ \E sel \in ChatIds(Ensured(Registry)) :
        RenderChat(PickChat(Ensured(Registry), sel))
    /\ ui_message' = NoMessage
    /\ UNCHANGED <<engineVars, n8n_client, workflows_cache, page,
                   openrouter_api_key, pickerVars, ctxVars>>

\* page_chat, "New Chat" of the sidebar
CreateChat ==
    /\ page = "chat"
    /\ event' = "New Chat"
    /\ Len(chats) < MaxChats
    /\ RenderChat(NewChat(Ensured(Registry)))
    /\ ui_message' = NoMessage
    /\ UNCHANGED <<engineVars, n8n_client, workflows_cache, page,
                   openrouter_api_key, pickerVars, ctxVars>>

\* _minified_json(obj): the document on one line
Minified(doc) == <<doc.id, IF "name" \in DOMAIN doc THEN doc.name ELSE doc.status>>

\* page_chat: context_parts, one labelled part for each truthy agent_* key
\* faulty variant: the diff part is put in front of the workflow JSON part
ContextPartsDiffFirst(c) ==
    (IF TruthyArg(c.workflow_id)
     THEN <<[label |-> "Workflow ID", text |-> c.workflow_id[1]]>> ELSE <<>>)
    \o (IF c.workflow_diff # Nothing /\ c.workflow_diff[1] # <<>>
        THEN <<[label |-> "Workflow diff (unified)", text |-> c.workflow_diff[1]]>>
        ELSE <<>>)
    \o (IF c.workflow_json # Nothing
        THEN <<[label |-> "Workflow JSON", text |-> Minified(c.workflow_json[1])]>>
        ELSE <<>>)
    \o (IF c.execution_json # Nothing
        THEN <<[label |-> "Selected execution JSON",
                text |-> Minified(c.execution_json[1])]>>
        ELSE <<>>)
ContextParts(c) ==
    (IF TruthyArg(c.workflow_id)
     THEN <<[label |-> "Workflow ID", text |-> c.workflow_id[1]]>> ELSE <<>>)
    \o (IF c.workflow_json # Nothing
        THEN <<[label |-> "Workflow JSON", text |-> Minified(c.workflow_json[1])]>>
        ELSE <<>>)
    \o (IF c.workflow_diff # Nothing /\ c.workflow_diff[1] # <<>>
        THEN <<[label |-> "Workflow diff (unified)", text |-> c.workflow_diff[1]]>>
        ELSE <<>>)
    \o (IF c.execution_json # Nothing
        THEN <<[label |-> "Selected execution JSON",
                text |-> Minified(c.execution_json[1])]>>
        ELSE <<>>)

\* page_chat: augmented_prompt = f"{prompt}{context_block}", the block being
\* "\n\nContext:\n" and the parts when there is a part, else ""
AugmentedPrompt(prompt, c) ==
    [text |-> prompt, context |-> ContextParts(c)]

\* _messages_to_langchain: HumanMessage for "user", AIMessage for "assistant",
\* any other role is left out
\* faulty variant: the history is handed over newest first
MessagesToLangchainReversed(msgs) ==
    [i \in 1..Len(msgs) |->
        [type |-> IF msgs[Len(msgs) + 1 - i].role = "user" THEN "human" ELSE "ai",
         content |-> msgs[Len(msgs) + 1 - i].content]]
MessagesToLangchain(msgs) ==
    LET known == SelectSeq(msgs, LAMBDA m : m.role \in {"user", "assistant"}) IN
    [i \in 1..Len(known) |->
        [type |-> IF known[i].role = "user" THEN "human" ELSE "ai",
         content |-> known[i].content]]

\* agent.stream / agent.invoke with the augmented prompt and the history
AgentCall(input, chat_history) ==
    [name |-> "agent", id |-> None, fetch_all |-> TRUE, input |-> input,
     chat_history |-> chat_history]

\* page_chat: a prompt is sent; the agent replies or raises
SendPrompt ==
    /\ page = "chat"
    /\ event' = "chat_input"
    /\ TurnCount(chats) + 2 <= MaxTurns
    /\ \E prompt \in Prompts :
        IF n8n_client = None \/ Strip(openrouter_api_key) = ""
        THEN /\ \E title \in Titles :
                  SetRegistry(AppendExchange(Ensured(Registry), prompt,
                      ChatReply(n8n_client, openrouter_api_key, ""), title))
             /\ ui_message' = NoMessage
             /\ UNCHANGED <<op, result>>
        ELSE LET e == EnsureActiveChat(Registry)
                 call == AgentCall(AugmentedPrompt(prompt, ContextRecord),
                             MessagesToLangchain(e.chats[e.at].messages)) IN
             \/ \E agent_reply \in AgentReplies, title \in Titles :
                  /\ Fetched(call, Returned(agent_reply))
                  /\ SetRegistry(AppendExchange(Ensured(Registry), prompt,
                         ChatReply(n8n_client, openrouter_api_key, agent_reply),
                         title))
                  /\ ui_message' = NoMessage
             \/ \E exc \in ClientErrors :
                  /\ Fetched(call, Raised(exc))
                  /\ RenderChat(Registry)
                  /\ ui_message' = Message("agent_error", exc)
    /\ UNCHANGED <<idleVars, n8n_client, workflows_cache, page,
                   openrouter_api_key, pickerVars, ctxVars>>

\* the snapshots _unified_diff is applied to: None or a workflow document
DiffInputs ==
    {Nothing} \cup {Some(d) : d \in [id : {"7", "8"}, name : {"A", "B", "C", "D"}]}
DiffCall(old, new) ==
    [name |-> "_unified_diff", id |-> None, fetch_all |-> TRUE,
     old |-> old, new |-> new]

\* _unified_diff is called with two snapshots
CallUnifiedDiff ==
    /\ \E old \in DiffInputs, new \in DiffInputs :
        Fetched(DiffCall(old, new), NoResult)
    /\ UNCHANGED <<idleVars, uiVars>>

\* _unified_diff returns the text
UnifiedDiffReturns ==
    /\ op.name = "_unified_diff"
    /\ result = NoResult
    /\ Fetched(op, Returned(UnifiedDiff(op.old, op.new)))
    /\ UNCHANGED <<idleVars, uiVars>>

(***************************************************************************)
(* Specifications                                                          *)
(***************************************************************************)
Init ==
    /\ api_prefix = None
    /\ pc = "idle"
    /\ op = [name |-> "__init__", id |-> None, fetch_all |-> TRUE]
    /\ cand = 0
    /\ last_exc = NoExc
    /\ cur = NoRequest
    /\ attempts = 0
    /\ delay_seconds = InitialDelay
    /\ all_items = <<>>
    /\ cursor = None
    /\ calls = <<>>
    /\ responses = <<>>
    /\ sleeps = <<>>
    /\ probed = <<>>
    /\ pages = <<>>
    /\ result = NoResult
    /\ n8n_client = None
    /\ ui_message = NoMessage
    /\ event = "none"
    /\ page = "connect"
    /\ openrouter_api_key = ""
    /\ workflows_cache = Nothing
    /\ show_exec_picker = FALSE
    /\ exec_list_payload = Nothing
    /\ agent_workflow_id = Nothing
    /\ agent_workflow_json = Nothing
    /\ agent_workflow_diff = Nothing
    /\ agent_execution_json = Nothing
    /\ chats = <<>>
    /\ active_chat_id = Nothing

\* one client object, used through its public methods
Next ==
    \/ Call
    \/ RetryStatus
    \/ RetryException
    \/ ProbeOk
    \/ ProbeNot200
    \/ ProbeRaise
    \/ GetReturn
    \/ GetRaise
    \/ PageHTTPError
    \/ PageUnexpected
    \/ PageNext
    \/ PageLast

Spec == Init /\ [][Next]_vars

\* the connect page: every "Validate n8n" builds a new client and tests it
NextConnect ==
    \/ ValidateN8n
    \/ RetryStatus
    \/ RetryException
    \/ ProbeOk
    \/ ProbeNot200
    \/ ProbeRaise
    \/ GetReturn
    \/ GetRaise

SpecConnect == Init /\ [][NextConnect]_vars

\* one client object, asked for executions under every choice of filters
NextExec ==
    \/ CallListExecutions
    \/ RetryStatus
    \/ RetryException
    \/ ProbeOk
    \/ ProbeNot200
    \/ ProbeRaise
    \/ GetReturn
    \/ GetRaise

SpecExec == Init /\ [][NextExec]_vars

\* the app, used for its context: connect, choose a workflow, refresh it,
\* attach and clear executions
NextContext ==
    \/ ConnectN8n
    \/ EnterOpenRouterKey
    \/ Continue
    \/ LoadWorkflows
    \/ ReloadWorkflows
    \/ UseThisWorkflow
    \/ Back
    \/ RefreshWorkflowJson
    \/ SelectExecution
    \/ ClearExecutionContext
    \/ LoadExecutions
    \/ UseThisExecution

SpecContext == Init /\ [][NextContext]_vars

\* the app, used for its chats: connect, choose a workflow, open chats,
\* switch between them and talk to the agent
NextChats ==
    \/ ConnectN8n
    \/ EnterOpenRouterKey
    \/ Continue
    \/ LoadWorkflows
    \/ UseThisWorkflow
    \/ Back
    \/ SelectChat
    \/ CreateChat
    \/ SendPrompt

SpecChats == Init /\ [][NextChats]_vars

\* the app, used for the prompts it hands to the agent under every context
NextPrompt ==
    \/ ConnectN8n
    \/ EnterOpenRouterKey
    \/ Continue
    \/ LoadWorkflows
    \/ UseThisWorkflow
    \/ Back
    \/ RefreshWorkflowJson
    \/ SelectExecution
    \/ ClearExecutionContext
    \/ LoadExecutions
    \/ UseThisExecution
    \/ SendPrompt

SpecPrompt == Init /\ [][NextPrompt]_vars

\* the differ alone, applied to every pair of snapshots
NextDiff ==
    \/ CallUnifiedDiff
    \/ UnifiedDiffReturns

SpecDiff == Init /\ [][NextDiff]_vars

(***************************************************************************)
(* Vocabulary of the properties                                            *)
(***************************************************************************)
Last(q) == q[Len(q)]
Done == pc = "idle" /\ result.kind # "none"

\* the latest _get_with_retry call has ended: the operation is over, or the
\* next call has not sent anything yet
CallEnded == Len(responses) > 0 /\ (pc = "idle" \/ attempts = 0)

\* the latest call was made by the method body, not by _ensure_prefix
LatestIsBody == Len(calls) > 0 /\ Last(calls).site # "_ensure_prefix"

\* the operation found the prefix cached when it was entered: it sent no probe
EnteredCached == Len(calls) > 0 /\ calls[1].site # "_ensure_prefix"

OnlyRetryableStatuses ==
    /\ Len(responses) > 0
    /\ \A i \in 1..Len(responses) :
         ~responses[i].exc /\ responses[i].status \in {429, 502, 503, 504}

(***************************************************************************)
(* C1: when every answer to a GET is one of 429, 502, 503, 504, the call   *)
(* makes exactly 4 requests and sleeps 0.5, 1.0, 2.0 (5, 10, 20 tenths)    *)
(* between them, never after the fourth; the domain operation then fails    *)
(* with an HTTP error carrying the last status.                            *)
(***************************************************************************)
C1_RetryableStatusExhaustsFourAttempts ==
    (CallEnded /\ OnlyRetryableStatuses) =>
        /\ Len(responses) = 4
        /\ sleeps = <<5, 10, 20>>
        /\ (LatestIsBody =>
              /\ pc = "idle"
              /\ result = Raised(HTTPError(responses[4].status)))

C1_Witness ==
    /\ Done
    /\ op.name = "get_workflow"
    /\ EnteredCached
    /\ OnlyRetryableStatuses
    /\ Len(responses) = 4
    /\ result.exc.type = "HTTPError"

FirstAnswerIsFatalStatus ==
    /\ Len(responses) > 0
    /\ ~responses[1].exc
    /\ responses[1].status >= 400
    /\ responses[1].status \notin {429, 502, 503, 504}

(***************************************************************************)
(* C2: on a client whose prefix is cached, a first answer with an error    *)
(* status outside 429, 502, 503, 504 (401, 404) ends the operation at once: *)
(* one request, no sleep, an HTTP error with that status.                  *)
(***************************************************************************)
C2_FatalStatusFailsAtOnce ==
    (EnteredCached /\ FirstAnswerIsFatalStatus) =>
        /\ pc = "idle"
        /\ Len(responses) = 1
        /\ sleeps = <<>>
        /\ result = Raised(HTTPError(responses[1].status))

C2_Witness ==
    /\ Done
    /\ op.name = "get_execution"
    /\ EnteredCached
    /\ Len(calls) = 1
    /\ responses = <<[exc |-> FALSE, status |-> 401]>>

UnderCachedPrefix ==
    (Truthy(api_prefix) /\ pc # "idle") =>
        /\ cur.prefix = api_prefix
        /\ cur.site # "_ensure_prefix"

(***************************************************************************)
(* C3: once a prefix is cached it never changes, and every request sent    *)
(* from then on goes under it and is not a probe.                          *)
(***************************************************************************)
C3_SchemeIsSticky ==
    /\ []UnderCachedPrefix
    /\ [][Truthy(api_prefix) =>
            /\ api_prefix' = api_prefix
            /\ (Len(calls') > 0 /\ calls' # calls =>
                  /\ Last(calls').prefix = api_prefix
                  /\ Last(calls').site # "_ensure_prefix")]_vars

C3_Witness ==
    /\ Done
    /\ api_prefix = LegacyREST
    /\ EnteredCached
    /\ \A i \in 1..Len(calls) : calls[i].prefix = LegacyREST

(***************************************************************************)
(* Vocabulary of the pagination properties                                 *)
(***************************************************************************)
\* list_workflows is in (or went through) its pagination loop
Aggregating ==
    op.name = "list_workflows" /\ op.fetch_all /\ api_prefix = "/api/v1"

\* a bare array, or an envelope holding an item array
IsValidShape(p) ==
    \/ p.type = "list"
    \/ (p.type = "dict" /\ p.hasData /\ p.dataIsList)

RECURSIVE ConcatItems(_)
ConcatItems(ps) ==
    IF ps = <<>> THEN <<>> ELSE ps[1].items \o ConcatItems(Tail(ps))

IsBodyCall(c) == c.site # "_ensure_prefix"
BodyCalls == SelectSeq(calls, IsBodyCall)
HasCursor(c) == "cursor" \in DOMAIN c.params

(***************************************************************************)
(* C4: a page whose cursor repeats one already consumed ends the           *)
(* aggregation after that page with the items gathered so far, and no      *)
(* cursor is ever sent twice.                                              *)
(***************************************************************************)
C4_RepeatedCursorStopsAggregation ==
    /\ \A i, j \in 1..Len(calls) :
         (i < j /\ HasCursor(calls[i]) /\ HasCursor(calls[j])) =>
             calls[i].params.cursor # calls[j].params.cursor
    /\ \A i, j \in 1..Len(pages) :
         (/\ Aggregating
          /\ i < j
          /\ IsValidShape(pages[i]) /\ IsValidShape(pages[j])
          /\ Truthy(NextCursor(pages[i]))
          /\ NextCursor(pages[j]) = NextCursor(pages[i])) =>
             /\ Len(pages) = j
             /\ pc = "idle"
             /\ result = Returned(Envelope(ConcatItems(pages), None))

(***************************************************************************)
(* C5: under the public API, with pages of valid shape, the items gathered *)
(* are the concatenation of the pages' item arrays in the order the pages  *)
(* were requested, each page is requested with the cursor of the page      *)
(* before it, and the aggregation ends, returning {"data": items}, at the  *)
(* first page without a cursor.                                            *)
(***************************************************************************)
C5_AggregationConcatenatesPages ==
    (Aggregating /\ \A i \in 1..Len(pages) : IsValidShape(pages[i])) =>
        /\ all_items = ConcatItems(pages)
        /\ \A k \in 1..Len(BodyCalls) :
             BodyCalls[k].params =
                 IF k = 1 THEN [limit |-> 100]
                 ELSE [limit |-> 100, cursor |-> NextCursor(pages[k - 1])]
        /\ \A i \in 1..(Len(pages) - 1) : Truthy(NextCursor(pages[i]))
        /\ (Len(pages) > 0 /\ ~Truthy(NextCursor(Last(pages)))) =>
              /\ pc = "idle"
              /\ Len(BodyCalls) = Len(pages)
              /\ result = Returned(Envelope(ConcatItems(pages), None))
        /\ (Done /\ result.kind = "returned") =>
              (Len(pages) > 0 /\ ~Truthy(NextCursor(Last(pages))))

C5_Witness ==
    /\ Done
    /\ Aggregating
    /\ Len(pages) = 3
    /\ pages[1] = Envelope(<<"a", "b">>, "c1")
    /\ pages[2] = Envelope(<<"c", "d">>, "c2")
    /\ result = Returned(Envelope(<<"a", "b", "c", "d">> \o pages[3].items, None))

EndedOk(e) == ~e.exc /\ e.status = 200

(***************************************************************************)
(* C6: a call on a client without a cached prefix probes /api/v1 first and *)
(* /rest second, each with GET {prefix}/workflows?limit=1; /rest is probed *)
(* only if the /api/v1 probe did not end with a 200; the prefix cached is  *)
(* the one of the first probe that ended with a 200.                       *)
(***************************************************************************)
C6_ProbesPublicThenLegacy ==
    /\ (pc # "idle" /\ ~Truthy(api_prefix)) => pc = "probe"
    /\ pc = "probe" =>
          cur = [site |-> "_ensure_prefix",
                 prefix |-> IF Len(probed) = 0 THEN "/api/v1" ELSE "/rest",
                 resource |-> "workflows", id |-> None, params |-> [limit |-> 1]]
    /\ Len(probed) <= 2
    /\ Len(probed) >= 1 => probed[1].prefix = "/api/v1"
    /\ Len(probed) = 2 => probed[2].prefix = "/rest"
    /\ (Len(probed) = 2 \/ (Len(probed) = 1 /\ pc = "probe")) => ~EndedOk(probed[1])
    /\ \A i \in 1..Len(probed) :
         EndedOk(probed[i]) => (i = Len(probed) /\ api_prefix = probed[i].prefix)
    /\ (Len(probed) > 0 /\ \A i \in 1..Len(probed) : ~EndedOk(probed[i])) =>
          api_prefix = None

C6_Witness ==
    /\ Done
    /\ Len(probed) = 2
    /\ EndedOk(probed[2])
    /\ api_prefix = LegacyREST
    /\ Len(calls) = 3
    /\ calls[1].prefix = PublicAPI /\ calls[1].params = [limit |-> 1]
    /\ calls[2].prefix = LegacyREST /\ calls[2].params = [limit |-> 1]

DetectionFailed ==
    /\ pc = "idle"
    /\ Len(probed) = 2
    /\ \A i \in 1..2 : ~EndedOk(probed[i])

(***************************************************************************)
(* C7: when no probe ends with a 200, detection fails with the failure of  *)
(* the last probe (/rest): its transport error, or its HTTP status.        *)
(***************************************************************************)
C7_DetectionFailureCarriesLastProbe ==
    DetectionFailed =>
        /\ result.kind = "raised"
        /\ IF probed[2].exc
           THEN result.exc.type = "RequestException"
           ELSE result.exc.status = probed[2].status

(***************************************************************************)
(* C8: when both probes are answered 401, "Validate n8n" shows the 401     *)
(* credential guidance, not a generic connection failure.                  *)
(***************************************************************************)
C8_Probes401ShowCredentialGuidance ==
    (/\ pc = "idle"
     /\ op.name = "page_connect"
     /\ Len(probed) = 2
     /\ \A i \in 1..2 : ~probed[i].exc /\ probed[i].status = 401) =>
        ui_message.kind = "unauthorized_tips"

(***************************************************************************)
(* C9: with the legacy prefix resolved, list_workflows makes one           *)
(* _get_with_retry call, GET /rest/workflows without any query parameter,  *)
(* follows no cursor and returns the payload of that one response.         *)
(***************************************************************************)
C9_LegacyListingIsOneGet ==
    (op.name = "list_workflows" /\ api_prefix = "/rest") =>
        /\ pc \in {"idle", "get"}
        /\ pc = "get" => (cur.prefix = "/rest" /\ cur.params = NoParams)
        /\ Len(BodyCalls) <= 1
        /\ \A k \in 1..Len(BodyCalls) :
             BodyCalls[k] = [site |-> "list_workflows", prefix |-> "/rest",
                             resource |-> "workflows", id |-> None,
                             params |-> NoParams]
        /\ Len(pages) <= 1
        /\ (Done /\ result.kind = "returned") =>
              (Len(pages) = 1 /\ result.value = pages[1] /\ Len(BodyCalls) = 1)

C9_Witness ==
    /\ Done
    /\ op.name = "list_workflows"
    /\ op.fetch_all
    /\ api_prefix = LegacyREST
    /\ pages = <<Envelope(<<"a", "b">>, "c1")>>
    /\ result = Returned(Envelope(<<"a", "b">>, "c1"))

(***************************************************************************)
(* C10: in the pagination loop a page that is neither a bare array nor an  *)
(* envelope with an item array ends the operation: no further page is      *)
(* requested and that payload is returned as it came.                      *)
(***************************************************************************)
C10_UnknownShapeReturnsRawPayload ==
    Aggregating =>
        \A i \in 1..Len(pages) :
            ~IsValidShape(pages[i]) =>
                /\ i = Len(pages)
                /\ pc = "idle"
                /\ Len(BodyCalls) = Len(pages)
                /\ result = Returned(pages[i])

C10_Witness ==
    /\ Done
    /\ Aggregating
    /\ Len(pages) = 2
    /\ pages[1] = Envelope(<<"a", "b">>, "c1")
    /\ pages[2] = DictBadData("c1")
    /\ result = Returned(DictBadData("c1"))

(***************************************************************************)
(* C11: the query parameters of the executions request are exactly the     *)
(* filter fields that are present (workflowId, status, limit, offset),     *)
(* each with its given value; an absent field does not appear at all,      *)
(* neither as an empty string nor as a null.                               *)
(***************************************************************************)
ExecFields ==
    {<<"workflow_id", "workflowId">>, <<"status", "status">>,
     <<"limit", "limit">>, <<"offset", "offset">>}
ExecutionsRequested ==
    /\ op.name = "list_executions"
    /\ LatestIsBody
    /\ Last(calls).resource = "executions"

C11_ExecutionParamsAreThePresentFilters ==
    ExecutionsRequested =>
        LET params == Last(calls).params IN
        /\ DOMAIN params \subseteq {f[2] : f \in ExecFields}
        /\ \A f \in ExecFields :
             IF op[f[1]] = Nothing
             THEN f[2] \notin DOMAIN params
             ELSE f[2] \in DOMAIN params /\ params[f[2]] = op[f[1]][1]

C11_Witness ==
    /\ ExecutionsRequested
    /\ Done
    /\ result.kind = "returned"
    /\ op.workflow_id = Some("7")
    /\ op.status = Nothing
    /\ op.limit = Nothing
    /\ op.offset = Some(DefaultExecOffset)
    /\ DOMAIN Last(calls).params = {"workflowId", "offset"}

(***************************************************************************)
(* C12: after a successful selection of a workflow, from any context (one  *)
(* with a diff and an execution of another workflow included), the context *)
(* holds exactly the selected id and the fetched snapshot, no diff and no  *)
(* execution.                                                              *)
(***************************************************************************)
C12_SelectionReplacesTheContext ==
    [][(event' = "Use This Workflow" /\ result'.kind = "returned") =>
          /\ agent_workflow_id' = Some(op'.id)
          /\ agent_workflow_json' = Some(result'.value)
          /\ agent_workflow_diff' = Nothing
          /\ agent_execution_json' = Nothing]_vars

C12_Witness ==
    /\ event = "Use This Workflow"
    /\ result.kind = "returned"
    /\ page = "chat"
    /\ agent_workflow_id = Some("7")
    /\ agent_workflow_json = Some([id |-> "7", name |-> "B"])
    /\ agent_execution_json = Nothing
    /\ exec_list_payload # Nothing
    /\ ~show_exec_picker

(***************************************************************************)
(* C13: a refresh asked for while no workflow is selected ends with an     *)
(* error shown to the user and leaves the context unchanged; it is never a *)
(* silent no-op.                                                           *)
(***************************************************************************)
C13_RefreshWithoutWorkflowFails ==
    [][(event' = "Refresh Workflow JSON"
            /\ agent_workflow_id \in {Nothing, Some("")}) =>
          /\ ui_message'.kind \notin {"none", "workflow_refreshed"}
          /\ UNCHANGED ctxVars]_vars

(***************************************************************************)
(* C14: after every successful refresh the stored snapshot is the fetched  *)
(* one and the stored diff is the diff of the snapshot held just before    *)
(* and the fetched one, whatever diff was stored before.                   *)
(***************************************************************************)
C14_RefreshRecomputesTheDiff ==
    [][(event' = "Refresh Workflow JSON"
            /\ ui_message'.kind = "workflow_refreshed") =>
          /\ agent_workflow_json' = Some(result'.value)
          /\ agent_workflow_diff' =
                 Some(UnifiedDiff(agent_workflow_json, Some(result'.value)))]_vars

C14_Witness ==
    /\ event = "Refresh Workflow JSON"
    /\ ui_message.kind = "workflow_refreshed"
    /\ agent_workflow_json = Some([id |-> "7", name |-> "B"])
    /\ agent_workflow_diff # Nothing
    /\ Len(agent_workflow_diff[1]) > 0
    /\ \E i \in 1..Len(agent_workflow_diff[1]) :
         agent_workflow_diff[1][i] = DiffLine("-", JsonLine("name", "A"))

(***************************************************************************)
(* C15: attaching and clearing an execution leave the workflow id, the     *)
(* snapshot and the diff unchanged; a refresh leaves the execution         *)
(* unchanged; an absent execution becomes present only by attaching one.   *)
(***************************************************************************)
C15_ExecutionIsIndependent ==
    [][/\ event' \in {"Use This Execution", "Clear Execution Context"} =>
              UNCHANGED <<agent_workflow_id, agent_workflow_json,
                          agent_workflow_diff>>
       /\ event' = "Refresh Workflow JSON" => UNCHANGED agent_execution_json
       /\ (agent_execution_json = Nothing /\ agent_execution_json' # Nothing)
              => event' = "Use This Execution"]_vars

C15_Witness ==
    /\ event = "Clear Execution Context"
    /\ agent_execution_json = Nothing
    /\ exec_list_payload # Nothing
    /\ ~show_exec_picker
    /\ agent_workflow_diff # Nothing
    /\ Len(agent_workflow_diff[1]) > 0

(***************************************************************************)
(* C20: when the fetch made by selecting a workflow, by refreshing it or   *)
(* by attaching an execution fails, the four fields of the context keep    *)
(* the values they had before.                                             *)
(***************************************************************************)
C20_FailedFetchLeavesTheContext ==
    [][(/\ event' \in {"Use This Workflow", "Refresh Workflow JSON",
                       "Use This Execution"}
        /\ ui_message'.kind \in {"failed_to_load_workflow",
               "failed_to_refresh_workflow", "failed_to_load_execution"}) =>
          UNCHANGED ctxVars]_vars

C20_Witness ==
    /\ event = "Refresh Workflow JSON"
    /\ ui_message.kind = "failed_to_refresh_workflow"
    /\ result.kind = "raised"
    /\ agent_workflow_diff # Nothing
    /\ agent_execution_json # Nothing

(***************************************************************************)
(* Vocabulary of the chats                                                 *)
(***************************************************************************)
IsPrefix(a, b) == Len(a) <= Len(b) /\ SubSeq(b, 1, Len(a)) = a

\* the run called _ensure_active_chat and went on to its end
EnsuredChat ==
    \/ event' = "Use This Workflow" /\ page' = "chat"
    \/ event' \in {"Chats", "chat_input"}

(***************************************************************************)
(* C17: the active chat handed out is always one of the chats: with no     *)
(* chat yet, exactly one empty chat is created and made active; with       *)
(* chats, none is created and their number stays the same.                 *)
(***************************************************************************)
C17_ActiveChatIsAMember ==
    [][EnsuredChat =>
          /\ IF chats = <<>>
             THEN chats' = <<[id |-> 1, name |-> "", messages |-> <<>>]>>
                  /\ active_chat_id' = Some(1)
             ELSE Len(chats') = Len(chats)
          /\ active_chat_id' # Nothing
          /\ \E i \in 1..Len(chats') : chats'[i].id = active_chat_id'[1]]_vars

C17_Witness ==
    /\ event = "Use This Workflow"
    /\ page = "chat"
    /\ Len(chats) = 1
    /\ chats[1].messages = <<>>
    /\ chats[1].name = ""
    /\ active_chat_id = Some(chats[1].id)

(***************************************************************************)
(* C18: a new chat is added at the end with no messages and becomes the    *)
(* active one; the chats before it stay as they are, and the ids of the    *)
(* chats are pairwise distinct in every state.                             *)
(***************************************************************************)
C18_NewChatIsAppendedAndActive ==
    /\ [](\A i, j \in 1..Len(chats) : chats[i].id = chats[j].id => i = j)
    /\ [][event' = "New Chat" =>
             /\ Len(chats') = Len(chats) + 1
             /\ SubSeq(chats', 1, Len(chats)) = chats
             /\ chats'[Len(chats')].messages = <<>>
             /\ active_chat_id' = Some(chats'[Len(chats')].id)]_vars

C18_Witness ==
    /\ event = "New Chat"
    /\ Len(chats) = 2
    /\ chats[1].messages # <<>>
    /\ chats[2].messages = <<>>
    /\ active_chat_id = Some(chats[2].id)
    /\ chats[1].id # chats[2].id

(***************************************************************************)
(* C19: the messages of every chat only grow at the end under every        *)
(* operation, the selection of a workflow included: what a chat held in    *)
(* an earlier state is a prefix of what it holds later.                    *)
(***************************************************************************)
C19_TurnsAreAppendOnly ==
    [][\A i \in 1..Len(chats) :
          /\ i <= Len(chats')
          /\ IsPrefix(chats[i].messages, chats'[i].messages)]_vars

(***************************************************************************)
(* C19, amended: the messages of every chat only grow at the end under     *)
(* every operation but a successful selection of a workflow, which empties *)
(* the active chat and leaves the messages of the other chats unchanged.   *)
(***************************************************************************)
C19_TurnsAreAppendOnlyButOnSelection ==
    [][\A i \in 1..Len(chats) :
          /\ i <= Len(chats')
          /\ IF /\ event' = "Use This Workflow" /\ page' = "chat"
                /\ chats[i].id = active_chat_id'[1]
             THEN chats'[i].messages = <<>>
             ELSE IsPrefix(chats[i].messages, chats'[i].messages)]_vars

C19_Witness ==
    /\ event = "Use This Workflow"
    /\ page = "chat"
    /\ Len(chats) = 2
    /\ active_chat_id = Some(chats[2].id)
    /\ chats[2].name # "" /\ chats[2].messages = <<>>
    /\ Len(chats[1].messages) = 2

(***************************************************************************)
(* C21: an exchange changes the chats all or nothing: when the agent       *)
(* fails, no message is added and no chat is named; when it replies, the   *)
(* user message and then the assistant message are added to one and the    *)
(* same chat.                                                              *)
(***************************************************************************)
C21_ExchangeIsAllOrNothing ==
    [][event' = "chat_input" =>
          IF ui_message'.kind = "agent_error"
          THEN chats' = chats
          ELSE /\ Len(chats') = Len(chats)
               /\ \E i \in 1..Len(chats) :
                    /\ chats'[i].messages = chats[i].messages \o
                           <<[role |-> "user", content |-> op'.input.text],
                             [role |-> "assistant", content |-> result'.value]>>
                    /\ \A j \in 1..Len(chats) : j # i => chats'[j] = chats[j]]_vars

C21_Witness ==
    /\ event = "chat_input"
    /\ ui_message.kind = "agent_error"
    /\ result.kind = "raised"
    /\ op.name = "agent" /\ op.input.text = "p2"
    /\ Len(chats) = 1
    /\ Len(chats[1].messages) = 2
    /\ chats[1].messages[1].content = "p1"

(***************************************************************************)
(* C22: the differ returns empty text for two equal snapshots, empty text  *)
(* when either snapshot is absent, and for two snapshots that differ in    *)
(* their name a non-empty text that holds the old and the new name.        *)
(***************************************************************************)
DiffReturned == op.name = "_unified_diff" /\ result.kind = "returned"
HasLine(text, tag, key, value) ==
    \E i \in 1..Len(text) : text[i] = [tag |-> tag, k |-> key, v |-> value]

C22_DifferIsEmptyOrShowsBothNames ==
    DiffReturned =>
        /\ op.old = op.new => result.value = <<>>
        /\ (op.old = Nothing \/ op.new = Nothing) => result.value = <<>>
        /\ (op.old # Nothing /\ op.new # Nothing
                /\ op.old[1].name # op.new[1].name) =>
              /\ result.value # <<>>
              /\ HasLine(result.value, "-", "name", op.old[1].name)
              /\ HasLine(result.value, "+", "name", op.new[1].name)

(***************************************************************************)
(* Vocabulary of the prompts                                               *)
(***************************************************************************)
AgentCalled == event' = "chat_input" /\ op'.name = "agent"
Labels(parts) == [i \in 1..Len(parts) |-> parts[i].label]
Entry(label, field) == IF field THEN <<label>> ELSE <<>>

(***************************************************************************)
(* C23: the prompt handed to the agent is the user text followed by one    *)
(* entry for each field that is present in the context, in the order       *)
(* workflow id, workflow JSON, diff, execution JSON; an absent field adds  *)
(* nothing.                                                                *)
(***************************************************************************)
C23_PromptListsThePresentFields ==
    [][AgentCalled =>
          /\ op'.input.text \in Prompts
          /\ Labels(op'.input.context) =
                 Entry("Workflow ID", agent_workflow_id # Nothing)
                 \o Entry("Workflow JSON", agent_workflow_json # Nothing)
                 \o Entry("Workflow diff (unified)", agent_workflow_diff # Nothing)
                 \o Entry("Selected execution JSON",
                          agent_execution_json # Nothing)]_vars

(***************************************************************************)
(* C23, amended: the prompt handed to the agent is the user text followed  *)
(* by one entry for each field that is present and not empty (an empty     *)
(* workflow id and an empty diff text add nothing), in the order workflow  *)
(* id, workflow JSON, diff, execution JSON.                                *)
(***************************************************************************)
C23_PromptListsTheNonEmptyFields ==
    [][AgentCalled =>
          /\ op'.input.text \in Prompts
          /\ Labels(op'.input.context) =
                 Entry("Workflow ID", agent_workflow_id \notin {Nothing, Some("")})
                 \o Entry("Workflow JSON", agent_workflow_json # Nothing)
                 \o Entry("Workflow diff (unified)",
                          agent_workflow_diff \notin {Nothing, Some(<<>>)})
                 \o Entry("Selected execution JSON",
                          agent_execution_json # Nothing)
          /\ \A i \in 1..Len(op'.input.context) :
               LET part == op'.input.context[i] IN
               part.text =
                   CASE part.label = "Workflow ID" -> agent_workflow_id[1]
                     [] part.label = "Workflow JSON" ->
                            <<agent_workflow_json[1].id, agent_workflow_json[1].name>>
                     [] part.label = "Workflow diff (unified)" ->
                            agent_workflow_diff[1]
                     [] part.label = "Selected execution JSON" ->
                            <<agent_execution_json[1].id,
                              agent_execution_json[1].status>>]_vars

C23_Witness ==
    /\ event = "chat_input"
    /\ op.name = "agent"
    /\ agent_workflow_id = Some("7")
    /\ agent_workflow_diff = Some(<<>>)
    /\ agent_execution_json # Nothing
    /\ Labels(op.input.context) =
           <<"Workflow ID", "Workflow JSON", "Selected execution JSON">>

(***************************************************************************)
(* C24: the history handed to the agent is the turn sequence the active    *)
(* chat had before the exchange, turn by turn and in order, without the    *)
(* new user utterance; the utterance enters the chat only together with    *)
(* the reply the agent returned.                                           *)
(***************************************************************************)
C24_HistoryIsTheTurnsBefore ==
    [][AgentCalled =>
          \E i \in 1..Len(chats) :
              LET before == chats[i].messages
                  history == op'.chat_history
              IN  /\ active_chat_id = Some(chats[i].id)
                  /\ Len(history) = Len(before)
                  /\ \A k \in 1..Len(before) :
                       /\ history[k].content = before[k].content
                       /\ history[k].type = "human" <=> before[k].role = "user"
                       /\ history[k].type = "ai" <=> before[k].role = "assistant"
                  /\ IF result'.kind = "returned"
                     THEN /\ Len(chats'[i].messages) = Len(before) + 2
                          /\ chats'[i].messages[Len(before) + 1] =
                                 [role |-> "user", content |-> op'.input.text]
                     ELSE chats'[i].messages = before]_vars

C24_Witness ==
    /\ event = "chat_input"
    /\ op.name = "agent"
    /\ result.kind = "returned"
    /\ op.chat_history = <<[type |-> "human", content |-> "p1"],
                           [type |-> "ai", content |-> "r1"]>>
    /\ op.input.text = "p2"
    /\ \E i \in 1..Len(chats) :
         /\ active_chat_id = Some(chats[i].id)
         /\ Len(chats[i].messages) = 4

(***************************************************************************)
(* Vocabulary of the retry properties                                      *)
(***************************************************************************)
\* a transport error or one of the retryable statuses
RetryableCondition(r) == r.exc \/ r.status \in {429, 502, 503, 504}
OnlyRetryableConditions ==
    /\ Len(responses) > 0
    /\ \A i \in 1..Len(responses) : RetryableCondition(responses[i])

\* the latest call is the single GET of a method body, not a page of the
\* aggregation loop
LatestIsSingleGet ==
    /\ LatestIsBody
    /\ ~(Last(calls).site = "list_workflows" /\ "limit" \in DOMAIN Last(calls).params)

SucceededAfterRetries ==
    /\ Len(responses) > 0
    /\ ~Last(responses).exc /\ Last(responses).status = 200
    /\ \A i \in 1..(Len(responses) - 1) : RetryableCondition(responses[i])

(***************************************************************************)
(* C25: transport errors are retried under the same budget as the          *)
(* retryable statuses: whatever the interleaving of transport errors and   *)
(* 429, 502, 503, 504 answers, a call makes at most 4 requests and sleeps   *)
(* 0.5, 1.0, 2.0 (5, 10, 20 tenths) between them; when the 4th attempt is a *)
(* transport error the call raises it: a method body fails with it, a      *)
(* probe hands it to the detection loop.                                   *)
(***************************************************************************)
C25_TransportErrorsShareTheBudget ==
    OnlyRetryableConditions =>
        /\ Len(responses) <= 4
        /\ IsPrefix(sleeps, <<5, 10, 20>>)
        /\ Len(sleeps) >= Len(responses) - 1
        /\ (CallEnded =>
              /\ Len(responses) = 4
              /\ sleeps = <<5, 10, 20>>
              /\ (responses[4].exc =>
                    IF LatestIsBody
                    THEN pc = "idle" /\ result = Raised(RequestException)
                    ELSE /\ last_exc = RequestException
                         /\ Last(probed).exc
                         /\ (pc = "idle" => result = Raised(RequestException))))

C25_Witness ==
    /\ Done
    /\ op.name = "get_workflow"
    /\ EnteredCached
    /\ Len(responses) = 4
    /\ responses[1].exc
    /\ responses[2] = [exc |-> FALSE, status |-> 503]
    /\ responses[3].exc
    /\ responses[4].exc
    /\ sleeps = <<5, 10, 20>>
    /\ result = Raised(RequestException)

(***************************************************************************)
(* C26: when the attempts before the k-th (k <= 4) of a method's GET fail  *)
(* with a retryable condition and the k-th is answered 200, the operation  *)
(* ends there: it returns the body of that answer, has made exactly k      *)
(* requests with the k-1 sleeps between them, and reports no error.        *)
(***************************************************************************)
C26_SuccessAfterRetriesReturnsTheBody ==
    (LatestIsSingleGet /\ SucceededAfterRetries) =>
        /\ pc = "idle"
        /\ Len(responses) <= 4
        /\ Len(sleeps) = Len(responses) - 1
        /\ IsPrefix(sleeps, <<5, 10, 20>>)
        /\ result.kind = "returned"
        /\ result.exc = NoExc
        /\ IF op.name \in {"test_connection", "page_connect"}
           THEN result.value = PyTrue
           ELSE result.value = Last(pages)

C26_Witness ==
    /\ Done
    /\ op.name = "get_execution"
    /\ EnteredCached
    /\ Len(calls) = 1
    /\ Len(responses) = 3
    /\ responses[1].exc
    /\ responses[2] = [exc |-> FALSE, status |-> 429]
    /\ responses[3] = [exc |-> FALSE, status |-> 200]
    /\ sleeps = <<5, 10>>
    /\ result.kind = "returned"

(***************************************************************************)
(* Vocabulary of the detection properties                                  *)
(***************************************************************************)
NoProbeAccepted ==
    /\ Len(probed) > 0
    /\ \A i \in 1..Len(probed) : probed[i].exc \/ probed[i].status # 200
DetectionGaveUp == pc = "idle" /\ Len(probed) = 2 /\ NoProbeAccepted
OperationStarts == pc = "idle" /\ pc' # "idle"

(***************************************************************************)
(* C27: resolving the prefix is idempotent.  While no probe of an          *)
(* operation has ended with a 200 nothing is cached, so the operation      *)
(* that follows a failed detection probes again, /api/v1 first; once a     *)
(* prefix is cached, an operation sends no probe and leaves the cache as   *)
(* it is.                                                                  *)
(***************************************************************************)
C27_ResolutionIsIdempotent ==
    [][/\ NoProbeAccepted' => api_prefix' \in {None, ""}
       /\ OperationStarts /\ op'.name # "page_connect" =>
            /\ api_prefix' = api_prefix
            /\ IF api_prefix \in {None, ""}
               THEN cur' = [site |-> "_ensure_prefix", prefix |-> "/api/v1",
                            resource |-> "workflows", id |-> None,
                            params |-> [limit |-> 1]]
               ELSE /\ cur'.site # "_ensure_prefix"
                    /\ cur'.prefix = api_prefix]_vars

C27_Witness ==
    /\ DetectionGaveUp
    /\ api_prefix = None
    /\ op.name = "get_execution"
    /\ probed[1] = [prefix |-> "/api/v1", exc |-> FALSE, status |-> 404]
    /\ probed[2] = [prefix |-> "/rest", exc |-> TRUE, status |-> 0]
    /\ result = Raised(RequestException)

(***************************************************************************)
(* C28: chats are independent.  A step changes the turns or the name of    *)
(* at most the chat that is active: an exchange and a workflow selection   *)
(* leave the turns and names of all other chats as they were, and no       *)
(* other step changes any chat.                                            *)
(***************************************************************************)
C28_OtherChatsAreUntouched ==
    [][\A i \in 1..Len(chats) :
          /\ i <= Len(chats')
          /\ chats'[i].id = chats[i].id
          /\ (chats'[i] # chats[i] =>
                /\ event' \in {"chat_input", "Use This Workflow"}
                /\ active_chat_id = Some(chats[i].id)
                /\ active_chat_id' = active_chat_id)]_vars

C28_Witness ==
    /\ event = "chat_input"
    /\ Len(chats) = 2
    /\ active_chat_id = Some(chats[2].id)
    /\ chats[1].messages = <<[role |-> "user", content |-> "p1"],
                             [role |-> "assistant", content |-> "r1"]>>
    /\ chats[2].messages = <<[role |-> "user", content |-> "p2"],
                             [role |-> "assistant", content |-> "(No response)"]>>
    /\ chats[1].name = "Title"

(***************************************************************************)
(* C29: in every reachable state the turns of every chat come in pairs:    *)
(* the length is even, the odd positions are user turns and the even       *)
(* positions assistant turns.                                              *)
(***************************************************************************)
C29_TurnsAlternate ==
    \A i \in 1..Len(chats) :
        /\ Len(chats[i].messages) % 2 = 0
        /\ \A k \in 1..Len(chats[i].messages) :
             chats[i].messages[k].role = IF k % 2 = 1 THEN "user" ELSE "assistant"

C29_Witness ==
    /\ event = "Use This Workflow"
    /\ page = "chat"
    /\ Len(chats) = 2
    /\ active_chat_id = Some(chats[1].id)
    /\ chats[1].messages = <<>>
    /\ Len(chats[2].messages) = 4

====
